---- MODULE Spec2Model ----
(***************************************************************************)
(* A model of the go-grep regular expression package (package regex):      *)
(* Compile turns a pattern read from a bufio.Reader into an expression     *)
(* tree (compileExpression) and then into an NFA with epsilon transitions  *)
(* (the convert methods); Matches simulates the NFA over an input string   *)
(* (newMatcher, move, addState, isInAcceptingState).                       *)
(*                                                                         *)
(* Runes are modelled by their code points.  A *state is modelled by the   *)
(* index of the newState call that allocated it: every call allocates a    *)
(* new one-byte variable, so distinct calls give distinct pointers.        *)
(* A Go map is a function; a missing key reads as the zero value.          *)
(***************************************************************************)
EXTENDS Integers, Sequences, FiniteSets, TLC

\* ------------------------------------------------------------------ runes

\* const empty rune = 0: the label of an epsilon transition.
empty == 0
\* '*'
Star == 42
\* '('
LParen == 40
\* ')'
RParen == 41
\* '|'
Pipe == 124

\* 'a', 'b', 'c', 'd': the literals of the demo programs' patterns and inputs.
LitA == 97
LitB == 98
LitC == 99
LitD == 100

\* ----------------------------------------------------------------- bounds

\* Every pattern of at most MaxPatLen runes over PatternRunes is compiled.
MaxPatLen == 4
\* Every input of at most MaxInLen runes over InputRunes is matched.
MaxInLen == 3

PatternRunes == {LitA, LitB, LParen, RParen, Pipe, Star}
InputRunes == {LitA, LitB, empty}

SeqsUpTo(S, n) == UNION {[1..k -> S] : k \in 0..n}

\* Longer patterns taken from the package's documentation and demo programs:
\* "(a|b)*c", "a|b|c", "abc", "a*bc", "((a)", "(a*)*", "((a))", "(a|b",
\* "((*a", and the pattern 'a' NUL 'b'.
NamedPatterns ==
    { <<LParen, LitA, Pipe, LitB, RParen, Star, LitC>>,
      <<LitA, Pipe, LitB, Pipe, LitC>>,
      <<LitA, LitB, LitC>>,
      <<LitA, Star, LitB, LitC>>,
      <<LParen, LParen, LitA, RParen>>,
      <<LParen, LitA, Star, RParen, Star>>,
      <<LParen, LParen, LitA, RParen, RParen>>,
      <<LParen, LitA, Pipe, LitB>>,
      <<LParen, LParen, Star, LitA>>,
      <<LitA, empty, LitB>> }

\* "abc", "ab", "abcd", "ac", "c", "aaaa", "aabbc", "aabb", "abc" NUL, "bc",
\* "aabc", "babb", "abb" NUL
NamedInputs ==
    { <<LitA, LitB, LitC>>,
      <<LitA, LitB>>,
      <<LitA, LitB, LitC, LitD>>,
      <<LitA, LitC>>,
      <<LitC>>,
      <<LitA, LitA, LitA, LitA>>,
      <<LitA, LitA, LitB, LitB, LitC>>,
      <<LitA, LitA, LitB, LitB>>,
      <<LitA, LitB, LitC, empty>>,
      <<LitB, LitC>>,
      <<LitA, LitA, LitB, LitC>>,
      <<LitB, LitA, LitB, LitB>>,
      <<LitA, LitB, LitB, empty>> }

Patterns == SeqsUpTo(PatternRunes, MaxPatLen) \cup NamedPatterns
Inputs == SeqsUpTo(InputRunes, MaxInLen) \cup NamedInputs

\* The earlier program (compile over a string, '*' the only operator) compiles
\* every pattern of at most MaxEarlierPatLen runes over EarlierRunes, and
\* "a*bc" and "abc".
MaxEarlierPatLen == 3
EarlierRunes == {LitA, LitB, Star}
EarlierPatterns ==
    SeqsUpTo(EarlierRunes, MaxEarlierPatLen)
    \cup {<<LitA, Star, LitB, LitC>>, <<LitA, LitB, LitC>>}

\* The command-line program compiles every pattern of at most MaxStackPatLen
\* runes over StackRunes.
MaxStackPatLen == 4
StackRunes == {LitA, LParen, RParen, Pipe, Star}
StackPatterns == SeqsUpTo(StackRunes, MaxStackPatLen)

\* NumProcs goroutines call Matches on one compiled automaton, again and again,
\* with every input of at most MaxCallInLen runes over CallRunes.
NumProcs == 2
MaxCallInLen == 1

Procs == 1..NumProcs
CallRunes == {LitA, LitB}

\* "", "*", "(", "ab", "a|b", "a*b", "(a|b)*"
CallPatterns ==
    { << >>,
      <<Star>>,
      <<LParen>>,
      <<LitA, LitB>>,
      <<LitA, Pipe, LitB>>,
      <<LitA, Star, LitB>>,
      <<LParen, LitA, Pipe, LitB, RParen, Star>> }

\* and the inputs "ab", NUL
CallInputs == SeqsUpTo(CallRunes, MaxCallInLen) \cup {<<LitA, LitB>>, <<empty>>}

\* ------------------------------------------------------------------- maps

\* m[k] of a Go map: the zero value (a nil map, a nil slice) when k is absent.
Lookup(m, k) == IF k \in DOMAIN m THEN m[k] ELSE << >>
\* m[k] = v
Store(m, k, v) == (k :> v) @@ m
\* delete(m, k)
Delete(m, k) == [x \in (DOMAIN m) \ {k} |-> m[x]]

\* ------------------------------------------------------------ expressions

\* The nil expr interface value.
NilExpr == [kind |-> "nil"]
match(c) == [kind |-> "match", c |-> c]
concat(exprs) == [kind |-> "concat", exprs |-> exprs]
union(expr1, expr2) == [kind |-> "union", expr1 |-> expr1, expr2 |-> expr2]
kleene(expr) == [kind |-> "kleene", expr |-> expr]

\* ------------------------------------------------------------- automata

\* newState returning the address of one shared variable.
newStateShared(n) == 0

\* newState(): the n-th allocation.
newState(n) == n

\* The nil *Automata.
NilAutomata == [initial |-> -1, accepting |-> -1, transitions |-> << >>]

\* A convert call that panicked; a convert call that returned automaton a
\* after n states had been allocated.
Panicked(n) == [panic |-> TRUE, next |-> n, automata |-> NilAutomata]
Returned(a, n) == [panic |-> FALSE, next |-> n, automata |-> a]

mergeTransitions(a, b) == b @@ a

\* concatAutomata without delete(a.transitions, b.initial).
concatAutomataKeeping(a, b) ==
    LET merged == mergeTransitions(a.transitions, b.transitions)
    IN [initial |-> a.initial,
        accepting |-> b.accepting,
        transitions |-> Store(merged, a.accepting, Lookup(merged, b.initial))]

concatAutomata(a, b) ==
    LET merged == mergeTransitions(a.transitions, b.transitions)
        moved == Store(merged, a.accepting, Lookup(merged, b.initial))
    IN [initial |-> a.initial,
        accepting |-> b.accepting,
        transitions |-> Delete(moved, b.initial)]

convertMatch(e, n) ==
    LET state0 == newState(n)
        state1 == newState(n + 1)
    IN Returned([initial |-> state0,
                 accepting |-> state1,
                 transitions |-> (state0 :> (e.c :> <<state1>>))
                                 @@ (state1 :> << >>)],
                n + 2)

\* unionTransitions without the edge from the second option's accepting state.
unionTransitionsFirstOnly(newInitial, newAccepting, a1, a2) ==
    LET t0 == mergeTransitions(a1.transitions, a2.transitions)
        t1 == Store(t0, newInitial, empty :> <<a1.initial, a2.initial>>)
    IN Store(t1, a1.accepting, empty :> <<newAccepting>>)

unionTransitions(newInitial, newAccepting, a1, a2) ==
    LET t0 == mergeTransitions(a1.transitions, a2.transitions)
        t1 == Store(t0, newInitial, empty :> <<a1.initial, a2.initial>>)
        t2 == Store(t1, a1.accepting, empty :> <<newAccepting>>)
    IN Store(t2, a2.accepting, empty :> <<newAccepting>>)

\* kleeneTransitions with the repetition going back to the new initial state.
kleeneTransitionsViaInitial(newInitial, newAccepting, sub) ==
    LET t1 == Store(sub.transitions, newInitial,
                    empty :> <<sub.initial, newAccepting>>)
        t2 == Store(t1, sub.accepting, empty :> <<newAccepting, newInitial>>)
    IN Store(t2, newAccepting, << >>)

kleeneTransitions(newInitial, newAccepting, sub) ==
    LET t1 == Store(sub.transitions, newInitial,
                    empty :> <<sub.initial, newAccepting>>)
        t2 == Store(t1, sub.accepting, empty :> <<newAccepting, sub.initial>>)
    IN Store(t2, newAccepting, << >>)

RECURSIVE convert(_, _), concatLoop(_, _, _)

\* The loop of concat.convert over exprs[1:], acc being the automaton so far.
concatLoop(exprs, i, acc) ==
    IF acc.panic \/ i > Len(exprs)
    THEN acc
    ELSE LET b == convert(exprs[i], acc.next)
         IN IF b.panic
            THEN b
            ELSE concatLoop(exprs, i + 1,
                            Returned(concatAutomata(acc.automata, b.automata), b.next))

convertConcat(e, n) ==
    IF Len(e.exprs) = 0
    THEN Panicked(n)
    ELSE concatLoop(e.exprs, 2, convert(e.exprs[1], n))

convertUnion(e, n) ==
    LET newInitial == newState(n)
        newAccepting == newState(n + 1)
        r1 == convert(e.expr1, n + 2)
        r2 == convert(e.expr2, r1.next)
    IN IF r1.panic THEN r1
       ELSE IF r2.panic THEN r2
       ELSE Returned([initial |-> newInitial,
                      accepting |-> newAccepting,
                      transitions |-> unionTransitions(newInitial, newAccepting,
                                                       r1.automata, r2.automata)],
                     r2.next)

convertKleene(e, n) ==
    LET newInitial == newState(n)
        newAccepting == newState(n + 1)
        r == convert(e.expr, n + 2)
    IN IF r.panic THEN r
       ELSE Returned([initial |-> newInitial,
                      accepting |-> newAccepting,
                      transitions |-> kleeneTransitions(newInitial, newAccepting,
                                                        r.automata)],
                     r.next)

\* expr.convert(), with n states allocated before the call.
convert(e, n) ==
    CASE e.kind = "match" -> convertMatch(e, n)
      [] e.kind = "concat" -> convertConcat(e, n)
      [] e.kind = "union" -> convertUnion(e, n)
      [] e.kind = "kleene" -> convertKleene(e, n)
      \* a method call on the nil interface value panics
      [] OTHER -> Panicked(n)

\* --------------------------------------- the earlier program's repetition

\* The table of the earlier kleene.convert: the sub-fragment's accepting state
\* leads to the new accepting state only, and the new accepting state gets no
\* entry.
kleeneTransitionsEarlier(newInitial, newAccepting, sub) ==
    LET t1 == Store(sub.transitions, newInitial,
                    empty :> <<sub.initial, newAccepting>>)
    IN Store(t1, sub.accepting, empty :> <<newAccepting>>)

RECURSIVE convertEarlier(_, _), concatLoopEarlier(_, _, _)

concatLoopEarlier(exprs, i, acc) ==
    IF acc.panic \/ i > Len(exprs)
    THEN acc
    ELSE LET b == convertEarlier(exprs[i], acc.next)
         IN IF b.panic
            THEN b
            ELSE concatLoopEarlier(exprs, i + 1,
                                   Returned(concatAutomata(acc.automata, b.automata),
                                            b.next))

\* expr.convert() of the earlier program, whose compile builds match, kleene
\* and concat expressions only.
convertEarlier(e, n) ==
    CASE e.kind = "match" -> convertMatch(e, n)
      [] e.kind = "kleene" ->
             LET newInitial == newState(n)
                 newAccepting == newState(n + 1)
                 r == convertEarlier(e.expr, n + 2)
             IN IF r.panic THEN r
                ELSE Returned([initial |-> newInitial,
                               accepting |-> newAccepting,
                               transitions |->
                                   kleeneTransitionsEarlier(newInitial, newAccepting,
                                                            r.automata)],
                              r.next)
      [] e.kind = "concat" ->
             IF Len(e.exprs) = 0
             THEN Panicked(n)
             ELSE concatLoopEarlier(e.exprs, 2, convertEarlier(e.exprs[1], n))
      [] OTHER -> Panicked(n)

\* The loop of the earlier compile over the runes of reg from the i-th on,
\* exprs being the expressions so far: the expressions, or the error.
RECURSIVE compileLoop(_, _, _)
compileLoop(reg, i, exprs) ==
    IF i > Len(reg)
    THEN [exprs |-> exprs, err |-> "nil"]
    ELSE IF reg[i] = Star
    THEN IF Len(exprs) = 0
         THEN [exprs |-> << >>,
               err |-> "Invalid regular expression: expected expression before '*'"]
         ELSE compileLoop(reg, i + 1,
                          Append(SubSeq(exprs, 1, Len(exprs) - 1),
                                 kleene(exprs[Len(exprs)])))
    ELSE compileLoop(reg, i + 1, Append(exprs, match(reg[i])))

\* --------------------------------------------------------------- matcher

getTransitions(m, st, c) ==
    (IF c = empty THEN <<st>> ELSE << >>)
    \o (IF c \in DOMAIN Lookup(m.transitions, st)
        THEN m.transitions[st][c]
        ELSE << >>)

\* matcher.alreadyOn[s]: false for a state the map does not hold.
IsAlreadyOn(mt, s) == s \in DOMAIN mt.alreadyOn /\ mt.alreadyOn[s]

RECURSIVE addState(_, _), addStateLoop(_, _, _)

\* The loop of addState over the epsilon successors ts of a state.
addStateLoop(mt, ts, i) ==
    IF i > Len(ts)
    THEN mt
    ELSE addStateLoop(IF ~IsAlreadyOn(mt, ts[i]) THEN addState(mt, ts[i]) ELSE mt,
                      ts, i + 1)

\* addState not following the epsilon transitions of the state it adds.
addStateShallow(mt, state) ==
    [mt EXCEPT !.newStates = Append(@, state),
               !.alreadyOn = Store(@, state, TRUE)]

\* addState creating the table's entry of a state that has none.
addStateMarking(mt, state) ==
    LET entered == [mt EXCEPT !.newStates = Append(@, state),
                              !.alreadyOn = Store(@, state, TRUE),
                              !.automata.transitions =
                                  Store(@, state, Lookup(@, state))]
    IN addStateLoop(entered, getTransitions(mt.automata, state, empty), 1)

addState(mt, state) ==
    LET entered == [mt EXCEPT !.newStates = Append(@, state),
                              !.alreadyOn = Store(@, state, TRUE)]
    IN addStateLoop(entered, getTransitions(mt.automata, state, empty), 1)

RECURSIVE moveInner(_, _, _), moveOuter(_, _, _), clearAlreadyOn(_, _, _)

\* moveInner without its alreadyOn test.
RECURSIVE moveInnerUnguarded(_, _, _)
moveInnerUnguarded(mt, ts, j) ==
    IF j > Len(ts)
    THEN mt
    ELSE moveInnerUnguarded(addState(mt, ts[j]), ts, j + 1)

\* The inner loop of move over the successors ts of one old state.
moveInner(mt, ts, j) ==
    IF j > Len(ts)
    THEN mt
    ELSE moveInner(IF ~IsAlreadyOn(mt, ts[j]) THEN addState(mt, ts[j]) ELSE mt,
                   ts, j + 1)

\* The outer loop of move over oldStates.
moveOuter(mt, c, i) ==
    IF i > Len(mt.oldStates)
    THEN mt
    ELSE moveOuter(moveInner(mt, getTransitions(mt.automata, mt.oldStates[i], c), 1),
                   c, i + 1)

\* The loop that resets alreadyOn left out.
clearAlreadyOnNever(alreadyOn, newStates, i) == alreadyOn

\* for _, newState := range newStates { alreadyOn[newState] = false }
clearAlreadyOn(alreadyOn, newStates, i) ==
    IF i > Len(newStates)
    THEN alreadyOn
    ELSE clearAlreadyOn(Store(alreadyOn, newStates[i], FALSE), newStates, i + 1)

\* move starting again from the initial state when no state is left.
moveRestarting(mt, c) ==
    LET from == IF mt.oldStates = << >>
                THEN [mt EXCEPT !.oldStates = <<mt.automata.initial>>]
                ELSE mt
        added == moveOuter(from, c, 1)
    IN [added EXCEPT !.oldStates = added.newStates,
                     !.newStates = << >>,
                     !.alreadyOn = clearAlreadyOn(added.alreadyOn, added.newStates, 1)]

\* move deleting the table's entries of the states it has left.
moveConsuming(mt, c) ==
    LET added == moveOuter(mt, c, 1)
        left == IF c = empty THEN {} ELSE {mt.oldStates[i] : i \in 1..Len(mt.oldStates)}
    IN [added EXCEPT !.oldStates = added.newStates,
                     !.newStates = << >>,
                     !.alreadyOn = clearAlreadyOn(added.alreadyOn, added.newStates, 1),
                     !.automata.transitions =
                         [s \in (DOMAIN @) \ left |-> @[s]]]

move(mt, c) ==
    LET added == moveOuter(mt, c, 1)
    IN [added EXCEPT !.oldStates = added.newStates,
                     !.newStates = << >>,
                     !.alreadyOn = clearAlreadyOn(added.alreadyOn, added.newStates, 1)]

\* newMatcher emptying the entries of the table it ranges over.
newMatcherClearing(a) ==
    move([automata |-> [a EXCEPT !.transitions = [s \in DOMAIN @ |-> << >>]],
          oldStates |-> <<a.initial>>,
          newStates |-> << >>,
          alreadyOn |-> [s \in DOMAIN a.transitions |-> FALSE]],
         empty)

newMatcher(automata) ==
    move([automata |-> automata,
          oldStates |-> <<automata.initial>>,
          newStates |-> << >>,
          alreadyOn |-> [s \in DOMAIN automata.transitions |-> FALSE]],
         empty)

isInAcceptingState(mt) ==
    \E i \in 1..Len(mt.oldStates) : mt.oldStates[i] = mt.automata.accepting

\* The matcher of Matches(in) on automaton m after k iterations of its loop.
RECURSIVE MatcherAfter(_, _, _)
MatcherAfter(m, in, k) ==
    IF k = 0 THEN newMatcher(m) ELSE move(MatcherAfter(m, in, k - 1), in[k])

\* m.Matches(in), run from its first to its last statement.
Matches(m, in) == isInAcceptingState(MatcherAfter(m, in, Len(in)))

\* ------------------------------------------------------------- exprStack

push(stack, ex) == [stack EXCEPT !.exprs = Append(@, ex)]

\* pop: the last expression, and the stack without it.
popped(stack) == stack.exprs[Len(stack.exprs)]
afterPop(stack) == [stack EXCEPT !.exprs = SubSeq(@, 1, Len(@) - 1)]

\* modifyLastExpr with the one modifier the program passes:
\* func(e expr) expr { return kleene{expr: e} }
modifyLastExpr(stack) == push(afterPop(stack), kleene(popped(stack)))

close(stack) == concat(stack.exprs)

closeUnion(stack) ==
    [stack EXCEPT !.exprs = <<union(stack.unionOption, close(stack))>>,
                  !.unionOption = NilExpr]

\* ------------------------------------------------------------------ state

VARIABLES
    pattern,    \* the runes the bufio.Reader delivers
    pos,        \* how many of them have been read
    readCount,  \* per rune of the pattern, how many ReadRune calls returned it
    frames,     \* the active compileExpression calls, the innermost last
    ret,        \* what the compileExpression call that just returned returned
    pc,         \* where the program is
    automata,   \* the *Automata Compile returned
    err,        \* the error Compile returned
    allocated,  \* the number of newState calls so far
    input,      \* the argument of Matches
    inPos,      \* how many runes of input the loop of Matches has consumed
    matcher,    \* the matcher of the running Matches call
    result,     \* what Matches returned
    calls,      \* per goroutine, its Matches call on the shared automaton
    expectedClosing  \* the counter of open groups of the command-line compile

vars == <<pattern, pos, readCount, frames, ret, pc, automata, err, allocated,
          input, inPos, matcher, result, calls, expectedClosing>>

compileVars == <<pattern, pos, readCount, frames, ret, automata, err, allocated>>
\* The variables no step of Compile writes.
matchVars == <<input, inPos, matcher, result, calls, expectedClosing>>

\* errors
NoErr == "nil"
EOF == "EOF"
ErrDangling == "Invalid regular expression: expected expression before '*'"

NoRet == [expr |-> NilExpr, err |-> NoErr]
NilMatcher == [automata |-> NilAutomata, oldStates |-> << >>,
               newStates |-> << >>, alreadyOn |-> << >>]

\* A compileExpression call: its exprStack, and whether it was called for a
\* group (isClosed is c == ')') or by Compile (isClosed is err == io.EOF).
NewFrame(group) == [exprs |-> << >>, unionOption |-> NilExpr, group |-> group]

Top == frames[Len(frames)]
SetTop(f) == [frames EXCEPT ![Len(frames)] = f]
Pop == SubSeq(frames, 1, Len(frames) - 1)

\* input.ReadRune() with p the reader's content and i runes already read.
ReadRune(p, i) ==
    IF i < Len(p) THEN [c |-> p[i + 1], err |-> NoErr] ELSE [c |-> 0, err |-> EOF]

\* The reader's position after ReadRune returned r.
Advance(i, r) == IF r.err = NoErr THEN i + 1 ELSE i

\* isClosed with the end of the input closing a group too.
isClosedAtEOF(frame, r) == IF frame.group THEN r.c = RParen \/ r.err = EOF ELSE r.err = EOF

isClosed(frame, r) == IF frame.group THEN r.c = RParen ELSE r.err = EOF

\* compileExpression as one call: the reader holds p with i runes read, frame
\* is the call's exprStack and isClosed.  Returns the expression, the error
\* and the reader's position.
RECURSIVE compileExpression(_, _, _)
compileExpression(p, i, frame) ==
    LET r == ReadRune(p, i)
        j == Advance(i, r)
        closed == IF frame.unionOption.kind # "nil" THEN closeUnion(frame) ELSE frame
    IN IF ~isClosed(frame, r) /\ r.err = NoErr
       THEN CASE r.c = Star ->
                     IF Len(frame.exprs) = 0
                     THEN [expr |-> NilExpr, err |-> ErrDangling, pos |-> j]
                     ELSE compileExpression(p, j, modifyLastExpr(frame))
              [] r.c = LParen ->
                     LET sub == compileExpression(p, j, NewFrame(TRUE))
                     IN IF sub.err # NoErr
                        THEN [expr |-> NilExpr, err |-> sub.err, pos |-> sub.pos]
                        ELSE compileExpression(p, sub.pos, push(frame, sub.expr))
              [] r.c = Pipe ->
                     compileExpression(p, j, [closed EXCEPT !.unionOption = close(closed),
                                                            !.exprs = << >>])
              [] OTHER -> compileExpression(p, j, push(frame, match(r.c)))
       ELSE IF ~isClosed(frame, r) /\ r.err # NoErr
       THEN [expr |-> NilExpr, err |-> r.err, pos |-> j]
       ELSE [expr |-> close(closed), err |-> NoErr, pos |-> j]

\* Compile as one call, for a pattern it compiles.
Compile(p) == convert(compileExpression(p, 0, NewFrame(FALSE)).expr, 0).automata

\* The error test left out.
NeverFailed(r) == FALSE

\* if err != nil { return nil, err }
Failed(r) == r.err # NoErr

\* A goroutine that has not called Matches yet.
IdleCall == [pc |-> "idle", input |-> << >>, inPos |-> 0,
             matcher |-> NilMatcher, result |-> FALSE]

\* The state in which Compile is called.
Start ==
    /\ pos = 0
    /\ readCount = [i \in 1..Len(pattern) |-> 0]
    /\ frames = <<NewFrame(FALSE)>>
    /\ ret = NoRet
    /\ pc = "read"
    /\ automata = NilAutomata
    /\ err = NoErr
    /\ allocated = 0
    /\ input = << >>
    /\ inPos = 0
    /\ matcher = NilMatcher
    /\ result = FALSE
    /\ calls = [p \in Procs |-> IdleCall]
    /\ expectedClosing = 0

Init == pattern \in Patterns /\ Start

\* One ReadRune call of the loop header of compileExpression.
Read(r) ==
    /\ pc = "read"
    /\ r = ReadRune(pattern, pos)
    /\ pos' = Advance(pos, r)
    /\ readCount' = IF r.err = NoErr
                    THEN [readCount EXCEPT ![pos + 1] = @ + 1]
                    ELSE readCount

\* The loop body runs: the call was not closed and the read did not fail.
InLoop(r) == ~isClosed(Top, r) /\ r.err = NoErr

\* case '*' without the test for an empty stack: the '*' becomes a literal.
DanglingStarPushed ==
    \E r \in {ReadRune(pattern, pos)} :
        /\ Read(r)
        /\ InLoop(r)
        /\ r.c = Star
        /\ Len(Top.exprs) = 0
        /\ frames' = SetTop(push(Top, match(r.c)))
        /\ UNCHANGED <<pattern, ret, pc, automata, err, allocated, matchVars>>

\* case '*' with an empty stack
DanglingStar ==
    \E r \in {ReadRune(pattern, pos)} :
        /\ Read(r)
        /\ InLoop(r)
        /\ r.c = Star
        /\ Len(Top.exprs) = 0
        /\ frames' = Pop
        /\ ret' = [expr |-> NilExpr, err |-> ErrDangling]
        /\ pc' = "return"
        /\ UNCHANGED <<pattern, automata, err, allocated, matchVars>>

\* case '*'
ReadStar ==
    \E r \in {ReadRune(pattern, pos)} :
        /\ Read(r)
        /\ InLoop(r)
        /\ r.c = Star
        /\ Len(Top.exprs) # 0
        /\ frames' = SetTop(modifyLastExpr(Top))
        /\ UNCHANGED <<pattern, ret, pc, automata, err, allocated, matchVars>>

\* case '(': the recursive compileExpression call starts
ReadGroup ==
    \E r \in {ReadRune(pattern, pos)} :
        /\ Read(r)
        /\ InLoop(r)
        /\ r.c = LParen
        /\ frames' = Append(frames, NewFrame(TRUE))
        /\ UNCHANGED <<pattern, ret, pc, automata, err, allocated, matchVars>>

\* case '|'
ReadUnion ==
    \E r \in {ReadRune(pattern, pos)} :
        /\ Read(r)
        /\ InLoop(r)
        /\ r.c = Pipe
        /\ LET closed == IF Top.unionOption.kind # "nil" THEN closeUnion(Top) ELSE Top
           IN frames' = SetTop([closed EXCEPT !.unionOption = close(closed),
                                              !.exprs = << >>])
        /\ UNCHANGED <<pattern, ret, pc, automata, err, allocated, matchVars>>

\* default
ReadMatch ==
    \E r \in {ReadRune(pattern, pos)} :
        /\ Read(r)
        /\ InLoop(r)
        /\ r.c \notin {Star, LParen, Pipe}
        /\ frames' = SetTop(push(Top, match(r.c)))
        /\ UNCHANGED <<pattern, ret, pc, automata, err, allocated, matchVars>>

\* The loop ends on a failed read that does not close the call.
ReadFailed ==
    \E r \in {ReadRune(pattern, pos)} :
        /\ Read(r)
        /\ ~isClosed(Top, r)
        /\ r.err # NoErr
        /\ frames' = Pop
        /\ ret' = [expr |-> NilExpr, err |-> r.err]
        /\ pc' = "return"
        /\ UNCHANGED <<pattern, automata, err, allocated, matchVars>>

\* The loop ends because the call is closed.
ReadClosed ==
    \E r \in {ReadRune(pattern, pos)} :
        /\ Read(r)
        /\ isClosed(Top, r)
        /\ LET closed == IF Top.unionOption.kind # "nil" THEN closeUnion(Top) ELSE Top
           IN ret' = [expr |-> close(closed), err |-> NoErr]
        /\ frames' = Pop
        /\ pc' = "return"
        /\ UNCHANGED <<pattern, automata, err, allocated, matchVars>>

\* The recursive call of case '(' returned an error.
GroupFailed ==
    /\ pc = "return"
    /\ Len(frames) > 0
    /\ Failed(ret)
    /\ frames' = Pop
    /\ ret' = [expr |-> NilExpr, err |-> ret.err]
    /\ UNCHANGED <<pattern, pos, readCount, pc, automata, err, allocated, matchVars>>

\* The recursive call of case '(' returned an expression.
GroupPushed ==
    /\ pc = "return"
    /\ Len(frames) > 0
    /\ ~Failed(ret)
    /\ frames' = SetTop(push(Top, ret.expr))
    /\ ret' = NoRet
    /\ pc' = "read"
    /\ UNCHANGED <<pattern, pos, readCount, automata, err, allocated, matchVars>>

\* Compile: compileExpression returned an error.
CompileFailed ==
    /\ pc = "return"
    /\ Len(frames) = 0
    /\ Failed(ret)
    /\ pc' = "failed"
    /\ err' = ret.err
    /\ automata' = NilAutomata
    /\ UNCHANGED <<pattern, pos, readCount, frames, ret, allocated, matchVars>>

\* Compile: expr.convert() panics.
CompilePanicked ==
    /\ pc = "return"
    /\ Len(frames) = 0
    /\ ~Failed(ret)
    /\ LET conv == convert(ret.expr, allocated)
       IN /\ conv.panic
          /\ allocated' = conv.next
    /\ pc' = "panicked"
    /\ UNCHANGED <<pattern, pos, readCount, frames, ret, automata, err, matchVars>>

\* Compile: expr.convert() returns the automaton.
Compiled ==
    /\ pc = "return"
    /\ Len(frames) = 0
    /\ ~Failed(ret)
    /\ LET conv == convert(ret.expr, allocated)
       IN /\ ~conv.panic
          /\ allocated' = conv.next
          /\ automata' = conv.automata
    /\ err' = NoErr
    /\ pc' = "compiled"
    /\ UNCHANGED <<pattern, pos, readCount, frames, ret, matchVars>>

\* Matches: newMatcher
MatchesStart ==
    /\ pc = "compiled"
    /\ \E in \in Inputs :
        /\ input' = in
        /\ matcher' = newMatcher(automata)
        /\ inPos' = 0
    /\ pc' = "matching"
    /\ UNCHANGED <<compileVars, result, calls, expectedClosing>>

\* Matches: one iteration of the loop over the input
MatchesMove ==
    /\ pc = "matching"
    /\ inPos < Len(input)
    /\ matcher' = move(matcher, input[inPos + 1])
    /\ inPos' = inPos + 1
    /\ UNCHANGED <<compileVars, pc, input, result, calls, expectedClosing>>

\* Matches: return matcher.isInAcceptingState()
MatchesReturn ==
    /\ pc = "matching"
    /\ inPos = Len(input)
    /\ result' = isInAcceptingState(matcher)
    /\ pc' = "matched"
    /\ UNCHANGED <<compileVars, input, inPos, matcher, calls, expectedClosing>>

Next ==
    \/ DanglingStar
    \/ ReadStar
    \/ ReadGroup
    \/ ReadUnion
    \/ ReadMatch
    \/ ReadFailed
    \/ ReadClosed
    \/ GroupFailed
    \/ GroupPushed
    \/ CompileFailed
    \/ CompilePanicked
    \/ Compiled
    \/ MatchesStart
    \/ MatchesMove
    \/ MatchesReturn

Spec == Init /\ [][Next]_vars

\* -------------------------------------------------- the earlier program
\*
\* compile(reg) of the earlier program runs as one step; matchAutomata is
\* Matches under its earlier name.

\* compile: a '*' with no expression before it
EarlierCompileFailed ==
    /\ pc = "read"
    /\ compileLoop(pattern, 1, << >>).err # NoErr
    /\ err' = compileLoop(pattern, 1, << >>).err
    /\ automata' = NilAutomata
    /\ pc' = "failed"
    /\ UNCHANGED <<pattern, pos, readCount, frames, ret, allocated, matchVars>>

\* compile: (concat{exprs: exprs}).convert() panics
EarlierCompilePanicked ==
    /\ pc = "read"
    /\ LET parsed == compileLoop(pattern, 1, << >>)
       IN /\ parsed.err = NoErr
          /\ convertEarlier(concat(parsed.exprs), allocated).panic
    /\ pc' = "panicked"
    /\ UNCHANGED <<pattern, pos, readCount, frames, ret, automata, err, allocated,
                   matchVars>>

\* compile: returns the automaton
EarlierCompiled ==
    /\ pc = "read"
    /\ LET parsed == compileLoop(pattern, 1, << >>)
           conv == convertEarlier(concat(parsed.exprs), allocated)
       IN /\ parsed.err = NoErr
          /\ ~conv.panic
          /\ automata' = conv.automata
          /\ allocated' = conv.next
          /\ ret' = [expr |-> concat(parsed.exprs), err |-> NoErr]
    /\ err' = NoErr
    /\ pc' = "compiled"
    /\ UNCHANGED <<pattern, pos, readCount, frames, matchVars>>

InitEarlier == pattern \in EarlierPatterns /\ Start

NextEarlier ==
    \/ EarlierCompileFailed
    \/ EarlierCompilePanicked
    \/ EarlierCompiled
    \/ MatchesStart
    \/ MatchesMove
    \/ MatchesReturn

SpecEarlier == InitEarlier /\ [][NextEarlier]_vars

\* --------------------------------------------- the command-line program
\*
\* compile(reg) of the command-line program keeps a stack of exprStacks
\* (frames, the top last) and the counter expectedClosing; one step is one
\* iteration of its loop over reg, pos being the number of runes processed.

ErrUnexpectedClosing == "Unexpected closing parenthesis"
ErrExpectedClosing == "Expected closing parenthesis"

newExprStack == [exprs |-> << >>, unionOption |-> NilExpr]

InitStack ==
    /\ pattern \in StackPatterns
    /\ pos = 0
    /\ readCount = [i \in 1..Len(pattern) |-> 0]
    /\ frames = <<newExprStack>>
    /\ ret = NoRet
    /\ pc = "read"
    /\ automata = NilAutomata
    /\ err = NoErr
    /\ allocated = 0
    /\ input = << >>
    /\ inPos = 0
    /\ matcher = NilMatcher
    /\ result = FALSE
    /\ calls = [p \in Procs |-> IdleCall]
    /\ expectedClosing = 0

\* The loop takes the next rune, c.
StackRead(c) ==
    /\ pc = "read"
    /\ pos < Len(pattern)
    /\ c = pattern[pos + 1]
    /\ pos' = pos + 1
    /\ readCount' = [readCount EXCEPT ![pos + 1] = @ + 1]

stackFrame == <<pattern, ret, input, inPos, matcher, result, calls>>

\* return nil, errors.New(e)
StackFails(e) ==
    /\ pc' = "failed"
    /\ err' = e
    /\ UNCHANGED <<frames, automata, allocated, expectedClosing, stackFrame>>

\* case ')' without the test of the counter: the ')' becomes a literal.
StackCloseAsLiteral ==
    /\ StackRead(RParen)
    /\ expectedClosing = 0
    /\ frames' = SetTop(push(Top, match(RParen)))
    /\ UNCHANGED <<pc, err, automata, allocated, expectedClosing, stackFrame>>

\* case '*' with an empty stack
StackDanglingStar ==
    /\ StackRead(Star)
    /\ Len(Top.exprs) = 0
    /\ StackFails(ErrDangling)

\* case '*'
StackStar ==
    /\ StackRead(Star)
    /\ Len(Top.exprs) # 0
    /\ frames' = SetTop(push(afterPop(Top), kleene(popped(Top))))
    /\ UNCHANGED <<pc, err, automata, allocated, expectedClosing, stackFrame>>

\* case '('
StackOpen ==
    /\ StackRead(LParen)
    /\ expectedClosing' = expectedClosing + 1
    /\ frames' = Append(frames, newExprStack)
    /\ UNCHANGED <<pc, err, automata, allocated, stackFrame>>

\* case ')' with expectedClosing == 0
StackUnexpectedClose ==
    /\ StackRead(RParen)
    /\ expectedClosing = 0
    /\ StackFails(ErrUnexpectedClosing)

\* case ')': the current stack is closed and pushed on the one below it
StackClose ==
    /\ StackRead(RParen)
    /\ expectedClosing # 0
    /\ expectedClosing' = expectedClosing - 1
    /\ frames' = [Pop EXCEPT ![Len(frames) - 1] = push(@, close(Top))]
    /\ UNCHANGED <<pc, err, automata, allocated, stackFrame>>

\* case '|'
StackUnion ==
    /\ StackRead(Pipe)
    /\ frames' = Append(SetTop([Top EXCEPT !.unionOption = close(Top),
                                           !.exprs = << >>]),
                        newExprStack)
    /\ UNCHANGED <<pc, err, automata, allocated, expectedClosing, stackFrame>>

\* default
StackMatch ==
    /\ \E c \in {pattern[i] : i \in 1..Len(pattern)} \ {Star, LParen, RParen, Pipe} :
           /\ StackRead(c)
           /\ frames' = SetTop(push(Top, match(c)))
    /\ UNCHANGED <<pc, err, automata, allocated, expectedClosing, stackFrame>>

\* After the loop: expectedClosing != 0
StackExpectedClose ==
    /\ pc = "read"
    /\ pos = Len(pattern)
    /\ expectedClosing # 0
    /\ StackFails(ErrExpectedClosing)
    /\ UNCHANGED <<pos, readCount>>

\* After the loop: the exprStacks with the last union closed, when there are
\* two of them and the first holds a union option.
lastUnionClosed ==
    IF Len(frames) = 2 /\ frames[1].unionOption.kind # "nil"
    THEN <<push(frames[1], union(frames[1].unionOption, close(frames[2])))>>
    ELSE frames

\* After the loop: exprStacks[0].close().convert() panics
StackPanicked ==
    /\ pc = "read"
    /\ pos = Len(pattern)
    /\ expectedClosing = 0
    /\ LET conv == convert(close(lastUnionClosed[1]), allocated)
       IN /\ conv.panic
          /\ allocated' = conv.next
    /\ frames' = lastUnionClosed
    /\ pc' = "panicked"
    /\ UNCHANGED <<pos, readCount, err, automata, expectedClosing, stackFrame>>

\* After the loop: return &automata, nil
StackCompiled ==
    /\ pc = "read"
    /\ pos = Len(pattern)
    /\ expectedClosing = 0
    /\ LET conv == convert(close(lastUnionClosed[1]), allocated)
       IN /\ ~conv.panic
          /\ allocated' = conv.next
          /\ automata' = conv.automata
    /\ frames' = lastUnionClosed
    /\ pc' = "compiled"
    /\ UNCHANGED <<pos, readCount, err, expectedClosing, stackFrame>>

NextStack ==
    \/ StackDanglingStar
    \/ StackStar
    \/ StackOpen
    \/ StackUnexpectedClose
    \/ StackClose
    \/ StackUnion
    \/ StackMatch
    \/ StackExpectedClose
    \/ StackPanicked
    \/ StackCompiled

SpecStack == InitStack /\ [][NextStack]_vars

\* ------------------------------------------- the hand-built automaton
\*
\* The first program builds one automaton by hand and runs matchAutomata
\* (Matches under its earlier name) on it; there is no pattern.

\* buildStateMachine(): state0 .. state10 are the first eleven allocations.
buildStateMachine ==
    [initial |-> newState(0),
     accepting |-> newState(10),
     transitions |->
         (newState(0) :> (empty :> <<newState(1), newState(7)>>))
         @@ (newState(1) :> (empty :> <<newState(2), newState(4)>>))
         @@ (newState(2) :> (LitA :> <<newState(3)>>))
         @@ (newState(3) :> (empty :> <<newState(6)>>))
         @@ (newState(4) :> (LitB :> <<newState(5)>>))
         @@ (newState(5) :> (empty :> <<newState(6)>>))
         @@ (newState(6) :> (empty :> <<newState(1), newState(7)>>))
         @@ (newState(7) :> (LitA :> <<newState(8)>>))
         @@ (newState(8) :> (LitB :> <<newState(9)>>))
         @@ (newState(9) :> (LitB :> <<newState(10)>>))
         @@ (newState(10) :> << >>)]

\* main after m := buildStateMachine()
InitStateMachine ==
    /\ pattern = << >>
    /\ pos = 0
    /\ readCount = << >>
    /\ frames = << >>
    /\ ret = NoRet
    /\ pc = "compiled"
    /\ automata = buildStateMachine
    /\ err = NoErr
    /\ allocated = Cardinality(DOMAIN buildStateMachine.transitions)
    /\ input = << >>
    /\ inPos = 0
    /\ matcher = NilMatcher
    /\ result = FALSE
    /\ calls = [p \in Procs |-> IdleCall]
    /\ expectedClosing = 0

NextStateMachine ==
    \/ MatchesStart
    \/ MatchesMove
    \/ MatchesReturn

SpecStateMachine == InitStateMachine /\ [][NextStateMachine]_vars

\* ------------------------------------- Matches calls on a shared automaton
\*
\* Matches has a value receiver: every call copies the Automata struct, and
\* the copies share the one transitions map.  A step of a call runs on the
\* map as it is when the step starts and leaves it as the step left it.

\* The matcher of goroutine p, seeing the shared map.
Shared(mt) == [mt EXCEPT !.automata.transitions = automata.transitions]

\* The shared map after a step that ended with matcher mt.
WrittenBack(mt) == [automata EXCEPT !.transitions = mt.automata.transitions]

callFrame == <<pattern, pos, readCount, frames, ret, pc, err, allocated,
               input, inPos, matcher, result, expectedClosing>>

\* Matches: newMatcher, in goroutine p
CallStart(p) ==
    /\ pc = "compiled"
    /\ calls[p].pc \in {"idle", "done"}
    /\ \E in \in CallInputs :
        LET mt == newMatcher(automata)
        IN /\ calls' = [calls EXCEPT ![p] = [pc |-> "matching", input |-> in,
                                             inPos |-> 0, matcher |-> mt,
                                             result |-> FALSE]]
           /\ automata' = WrittenBack(mt)
    /\ UNCHANGED callFrame

\* Matches: one iteration of the loop over the input, in goroutine p
CallMove(p) ==
    /\ pc = "compiled"
    /\ calls[p].pc = "matching"
    /\ calls[p].inPos < Len(calls[p].input)
    /\ LET mt == move(Shared(calls[p].matcher), calls[p].input[calls[p].inPos + 1])
       IN /\ calls' = [calls EXCEPT ![p].matcher = mt, ![p].inPos = @ + 1]
          /\ automata' = WrittenBack(mt)
    /\ UNCHANGED callFrame

\* Matches: return matcher.isInAcceptingState(), in goroutine p
CallReturn(p) ==
    /\ pc = "compiled"
    /\ calls[p].pc = "matching"
    /\ calls[p].inPos = Len(calls[p].input)
    /\ calls' = [calls EXCEPT ![p].result = isInAcceptingState(Shared(calls[p].matcher)),
                              ![p].pc = "done"]
    /\ UNCHANGED <<callFrame, automata>>

InitCalls == pattern \in CallPatterns /\ Start

NextCalls ==
    \/ DanglingStar
    \/ ReadStar
    \/ ReadGroup
    \/ ReadUnion
    \/ ReadMatch
    \/ ReadFailed
    \/ ReadClosed
    \/ GroupFailed
    \/ GroupPushed
    \/ CompileFailed
    \/ CompilePanicked
    \/ Compiled
    \/ \E p \in Procs : CallStart(p)
    \/ \E p \in Procs : CallMove(p)
    \/ \E p \in Procs : CallReturn(p)

SpecCalls == InitCalls /\ [][NextCalls]_vars

\* ---------------------------------------------------- the pattern grammar
\*
\*   expression := term ('|' term)*      term := factor*
\*   factor     := atom '*'*             atom := literal | '(' expression ')'

\* The number of groups open after the first i runes of p.
RECURSIVE Depth(_, _)
Depth(p, i) ==
    IF i = 0 THEN 0
    ELSE LET d == Depth(p, i - 1)
         IN CASE p[i] = LParen -> d + 1
              [] p[i] = RParen -> IF d > 0 THEN d - 1 ELSE 0
              [] OTHER -> d

\* p[i] is a ')' that closes no group.
StrayClose(p, i) == p[i] = RParen /\ Depth(p, i - 1) = 0

\* p[i] is the first rune of a run.
RunStart(p, i) == i = 1 \/ p[i - 1] \in {LParen, Pipe}

\* p[i] is a '*' with no factor before it.
Dangling(p, i) == p[i] = Star /\ RunStart(p, i)

\* A run of p is empty.
EmptyRun(p) ==
    \/ Len(p) = 0
    \/ p[Len(p)] = Pipe
    \/ \E i \in 1..Len(p) : RunStart(p, i) /\ p[i] \in {Pipe, RParen}

Balanced(p) ==
    /\ Depth(p, Len(p)) = 0
    /\ \A i \in 1..Len(p) : ~StrayClose(p, i)

WellFormed(p) == Balanced(p) /\ \A i \in 1..Len(p) : ~Dangling(p, i)

NulFree(s) == \A i \in 1..Len(s) : s[i] # 0

\* The top-level '|' runes of p.
TopPipes(p) == {i \in 1..Len(p) : p[i] = Pipe /\ Depth(p, i) = 0}

Min(S) == CHOOSE x \in S : \A y \in S : x <= y

\* The end of the atom p starts with; the end of the '*' runes after p[a].
AtomEnd(p) ==
    IF p[1] = LParen
    THEN Min({i \in 1..Len(p) : p[i] = RParen /\ Depth(p, i) = 0})
    ELSE 1
StarsEnd(p, a) ==
    Min({k \in a..Len(p) : k = Len(p) \/ p[k + 1] # Star})

RECURSIVE DescribesExpr(_, _), DescribesTerm(_, _), DescribesStar(_, _),
          DescribesAtom(_, _)

\* The well-formed pattern p describes the string s, as a whole.
DescribesExpr(p, s) ==
    IF TopPipes(p) = {}
    THEN DescribesTerm(p, s)
    ELSE LET i == Min(TopPipes(p))
         IN \/ DescribesTerm(SubSeq(p, 1, i - 1), s)
            \/ DescribesExpr(SubSeq(p, i + 1, Len(p)), s)

DescribesTerm(p, s) ==
    IF Len(p) = 0
    THEN Len(s) = 0
    ELSE LET a == AtomEnd(p)
             k == StarsEnd(p, a)
             atom == SubSeq(p, 1, a)
             rest == SubSeq(p, k + 1, Len(p))
         IN \E j \in 0..Len(s) :
                /\ IF k > a
                   THEN DescribesStar(atom, SubSeq(s, 1, j))
                   ELSE DescribesAtom(atom, SubSeq(s, 1, j))
                /\ DescribesTerm(rest, SubSeq(s, j + 1, Len(s)))

DescribesStar(atom, s) ==
    \/ Len(s) = 0
    \/ \E j \in 1..Len(s) :
           /\ DescribesAtom(atom, SubSeq(s, 1, j))
           /\ DescribesStar(atom, SubSeq(s, j + 1, Len(s)))

DescribesAtom(atom, s) ==
    IF atom[1] = LParen
    THEN DescribesExpr(SubSeq(atom, 2, Len(atom) - 1), s)
    ELSE s = <<atom[1]>>

\* ------------------------------------------------------------- the claims

\* Compile has returned or panicked.
CompileOver == pc \notin {"read", "return"}
\* Compile has returned an automaton.
CompileSucceeded == pc \in {"compiled", "matching", "matched"}

\* C1: for every well-formed pattern of non-NUL runes without an empty run,
\* Compile returns an automaton, and Matches(s) is true exactly for the strings
\* s the pattern describes as a whole.
C1_MatchesExactlyTheDescribedStrings ==
    (WellFormed(pattern) /\ ~EmptyRun(pattern) /\ NulFree(pattern))
    => /\ CompileOver => CompileSucceeded
       /\ pc = "matched" => result = DescribesExpr(pattern, input)

\* The statement of C1 for the inputs that hold no NUL.
MatchesExactlyOnNulFreeInput ==
    (WellFormed(pattern) /\ ~EmptyRun(pattern) /\ NulFree(pattern))
    => /\ CompileOver => CompileSucceeded
       /\ (pc = "matched" /\ NulFree(input))
          => result = DescribesExpr(pattern, input)

\* C2: once Compile has read a ')' that closes no group, it fails: it returns
\* an error and no automaton.
C2_StrayCloseFails ==
    (CompileOver /\ \E i \in 1..pos : StrayClose(pattern, i))
    => (pc = "failed" /\ err # NoErr /\ automata = NilAutomata)

\* C3: Compile never fails on a well-formed pattern, also when a run is empty,
\* and the automaton of the empty pattern accepts "" and nothing else.
C3_EmptyRunCompiles ==
    (WellFormed(pattern) /\ NulFree(pattern))
    => /\ CompileOver => CompileSucceeded
       /\ (pc = "matched" /\ Len(pattern) = 0) => result = (Len(input) = 0)

\* The runes that label a transition of automaton a.
Labels(a) == UNION {DOMAIN a.transitions[s] : s \in DOMAIN a.transitions}

\* C4: Matches returns a boolean; a rune of the input that labels no transition
\* of the automaton leaves the configuration empty, and Matches returns false.
C4_UnlabelledRuneEmptiesConfiguration ==
    /\ result \in BOOLEAN
    /\ (pc = "matching" /\ inPos > 0 /\ input[inPos] \notin Labels(automata))
       => matcher.oldStates = << >>
    /\ (pc = "matched" /\ \E i \in 1..Len(input) : input[i] \notin Labels(automata))
       => result = FALSE

\* The statement of C4 for the runes other than NUL.
UnlabelledNonNulRuneEmptiesConfiguration ==
    /\ (pc = "matching" /\ inPos > 0 /\ input[inPos] \notin Labels(automata) \cup {0})
       => matcher.oldStates = << >>
    /\ (pc = "matched"
        /\ \E i \in 1..Len(input) : input[i] \notin Labels(automata) \cup {0})
       => result = FALSE

NoDuplicates(q) == \A i, j \in 1..Len(q) : q[i] = q[j] => i = j

\* A measure every step decreases: the rank of the phase, then what is left
\* to do in it.
Rank ==
    CASE pc \in {"read", "return"} -> 3
      [] pc = "compiled" -> 2
      [] pc = "matching" -> 1
      [] OTHER -> 0
Left ==
    CASE pc \in {"read", "return"} ->
             3 * (Len(pattern) - pos) + 2 * Len(frames)
             + (IF pc = "return" THEN 1 ELSE 0)
      [] pc = "matching" -> Len(input) - inPos
      [] OTHER -> 0

\* C5: Compile reads every rune of the pattern at most once; in newMatcher and
\* in every move addState is entered at most once per state (oldStates is the
\* sequence of the states addState was entered with), also on automata with
\* epsilon cycles; and every step of Compile and of Matches decreases a measure
\* that is never negative, so both terminate.
C5_CompileAndMatchesTerminate ==
    /\ [](/\ \A i \in 1..Len(pattern) : readCount[i] <= 1
          /\ pos <= Len(pattern)
          /\ Left >= 0
          /\ pc \in {"matching", "matched"}
             => /\ NoDuplicates(matcher.oldStates)
                /\ Len(matcher.oldStates) <= allocated)
    /\ [][Rank' < Rank \/ (Rank' = Rank /\ Left' < Left)]_vars

\* "a**" was matched against three runes and accepted them.
C5_Witness ==
    /\ pc = "matched"
    /\ pattern = <<LitA, Star, Star>>
    /\ Len(input) = MaxInLen
    /\ result

\* C6: once a '*' was read at the start of a run (the first rune of the
\* pattern, or the one after '(' or '|'), compilation has stopped at that rune
\* with the dangling-operator error, and Compile returns it and no automaton.
C6_DanglingStarFails ==
    (\E i \in 1..pos : Dangling(pattern, i))
    => /\ Dangling(pattern, pos)
       /\ pc \in {"return", "failed"}
       /\ pc = "return" => ret = [expr |-> NilExpr, err |-> ErrDangling]
       /\ pc = "failed" => (err = ErrDangling /\ automata = NilAutomata)

\* Compile failed on a '*' that follows a '|' inside a group.
C6_Witness ==
    /\ pc = "failed"
    /\ err = ErrDangling
    /\ pos = 3
    /\ SubSeq(pattern, 1, 3) = <<LParen, Pipe, Star>>

\* C7: when the pattern ends with a group still open (and no '*' dangles, so
\* that the end is reached), Compile fails with the error of the reader, io.EOF,
\* and returns no automaton.
C7_UnterminatedGroupFails ==
    (/\ CompileOver
     /\ Depth(pattern, Len(pattern)) > 0
     /\ \A i \in 1..Len(pattern) : ~Dangling(pattern, i))
    => (pc = "failed" /\ err = EOF /\ automata = NilAutomata /\ allocated = 0)

\* Compile failed on "((a)".
C7_Witness ==
    /\ pc = "failed"
    /\ err = EOF
    /\ pattern = <<LParen, LParen, LitA, RParen>>

\* C8: when Compile has returned, it returned an automaton and a nil error, or
\* no automaton and an error; and from the return of an error by any
\* compileExpression call on, no rune is read, no state is allocated and the
\* same error is passed on, up to the return of Compile.
C8_AllOrNothing ==
    /\ [](/\ pc = "failed" => (automata = NilAutomata /\ err # NoErr /\ allocated = 0)
          /\ CompileSucceeded => (automata # NilAutomata /\ err = NoErr)
          /\ ~CompileOver => (automata = NilAutomata /\ err = NoErr))
    /\ [][(pc = "return" /\ ret.err # NoErr)
          => /\ pos' = pos
             /\ allocated' = allocated
             /\ automata' = NilAutomata
             /\ \/ pc' = "return" /\ ret' = ret /\ Len(frames') < Len(frames)
                \/ pc' = "failed" /\ err' = ret.err]_vars

\* Compile failed on "((*a": the error was raised two groups deep and the
\* last rune was never read.
C8_Witness ==
    /\ pc = "failed"
    /\ err = ErrDangling
    /\ pattern = <<LParen, LParen, Star, LitA>>
    /\ pos = 3

\* The pattern is a non-empty sequence of literals.
Literals(p) ==
    Len(p) > 0 /\ \A i \in 1..Len(p) : p[i] \notin {Star, LParen, RParen, Pipe, 0}

\* C9: the automaton of a non-empty sequence w of literals accepts w and
\* rejects every other string.
C9_LiteralSequenceAcceptsOnlyItself ==
    (Literals(pattern) /\ pc = "matched") => result = (input = pattern)

\* C10: the automaton of "a*" accepts the strings of 'a' runes, the empty
\* string included, and rejects every string that holds another rune.
C10_StarAcceptsOnlyRepetitions ==
    (pattern = <<LitA, Star>> /\ pc = "matched")
    => result = (\A i \in 1..Len(input) : input[i] = LitA)

\* The statements of C9 and C10 for the inputs that hold no NUL.
LiteralSequenceAndStarOnNulFreeInput ==
    (pc = "matched" /\ NulFree(input))
    => /\ Literals(pattern) => result = (input = pattern)
       /\ pattern = <<LitA, Star>>
          => result = (\A i \in 1..Len(input) : input[i] = LitA)

\* The pattern is a chain x1|x2|...|xn, n >= 2, of distinct single literals.
AlternationChain(p) ==
    /\ Len(p) >= 3
    /\ Len(p) % 2 = 1
    /\ \A i \in 1..Len(p) :
           IF i % 2 = 0
           THEN p[i] = Pipe
           ELSE p[i] \notin {Star, LParen, RParen, Pipe, 0}
    /\ \A i, j \in 1..Len(p) : (i % 2 = 1 /\ j % 2 = 1 /\ p[i] = p[j]) => i = j

\* Every active compileExpression call holds at most one pending alternative:
\* unionOption is nil or the one closed run (or folded union) before the '|'.
OnePendingAlternative ==
    \A k \in 1..Len(frames) : frames[k].unionOption.kind \in {"nil", "concat"}

\* C11: the automaton of a chain x1|...|xn of distinct single literals accepts
\* exactly the n one-rune strings x1..xn, and at most one alternative is pending
\* at any point of the parse.
C11_AlternationChainAcceptsItsLiterals ==
    /\ OnePendingAlternative
    /\ (AlternationChain(pattern) /\ pc = "matched")
       => result = (/\ Len(input) = 1
                    /\ \E i \in 1..Len(pattern) : i % 2 = 1 /\ pattern[i] = input[1])

\* The statement of C11 for the inputs that hold no NUL.
AlternationChainOnNulFreeInput ==
    /\ OnePendingAlternative
    /\ (AlternationChain(pattern) /\ pc = "matched" /\ NulFree(input))
       => result = (/\ Len(input) = 1
                    /\ \E i \in 1..Len(pattern) : i % 2 = 1 /\ pattern[i] = input[1])

\* s is a string of 'a' and 'b' runes followed by one 'c'.
RepeatedGroupThenC(s) ==
    /\ Len(s) >= 1
    /\ s[Len(s)] = LitC
    /\ \A i \in 1..(Len(s) - 1) : s[i] \in {LitA, LitB}

\* C12: the automaton of "(a|b)*c" accepts exactly the strings of any number
\* of 'a' and 'b' runes followed by one final 'c'.
C12_GroupStarThenLiteral ==
    (pattern = <<LParen, LitA, Pipe, LitB, RParen, Star, LitC>> /\ pc = "matched")
    => result = RepeatedGroupThenC(input)

\* The statement of C12 for the inputs that hold no NUL.
GroupStarThenLiteralOnNulFreeInput ==
    (/\ pattern = <<LParen, LitA, Pipe, LitB, RParen, Star, LitC>>
     /\ pc = "matched"
     /\ NulFree(input))
    => result = RepeatedGroupThenC(input)

\* The automaton Compile returned, as expr.convert() built it.
CompiledAutomata == convert(ret.expr, 0).automata

\* C13: two Matches calls with the same input on the same compiled automaton
\* return the same result, whatever calls, with whatever inputs, were made on
\* the automaton before, between or during them.
C13_RepeatedMatchesAgree ==
    \A p, q \in Procs :
        (/\ calls[p].pc = "done"
         /\ calls[q].pc = "done"
         /\ calls[p].input = calls[q].input)
        => calls[p].result = calls[q].result

\* Two calls on the automaton of "ab" have both returned true for "ab".
C13_Witness ==
    /\ pattern = <<LitA, LitB>>
    /\ \A p \in Procs :
           /\ calls[p].pc = "done"
           /\ calls[p].input = <<LitA, LitB>>
           /\ calls[p].result

\* C14: with the steps of several Matches calls on one automaton interleaved
\* in any order, no step writes the shared transition table, every matcher is
\* at each step what it is at that step of the call run alone (its oldStates,
\* newStates and alreadyOn are its own), and every call returns what it
\* returns when run alone.
C14_InterleavedMatchesRunAlone ==
    pc = "compiled"
    => /\ automata = CompiledAutomata
       /\ \A p \in Procs :
              /\ calls[p].pc \in {"matching", "done"}
                 => calls[p].matcher
                    = MatcherAfter(CompiledAutomata, calls[p].input, calls[p].inPos)
              /\ calls[p].pc = "done"
                 => calls[p].result = Matches(CompiledAutomata, calls[p].input)

\* On the automaton of "a|b", one call has returned true for "a" while another
\* call, for "ab", has consumed one rune.
C14_Witness ==
    /\ pattern = <<LitA, Pipe, LitB>>
    /\ calls[1].pc = "done"
    /\ calls[1].input = <<LitA>>
    /\ calls[1].result
    /\ calls[2].pc = "matching"
    /\ calls[2].input = <<LitA, LitB>>
    /\ calls[2].inPos = 1

\* C15: a Matches call leaves the automaton unchanged: during the call and
\* after it, for every input, the initial state, the accepting state, the keys
\* of the transition table and every entry of it, as the matcher's copy of
\* the struct shows them, are those of the automaton Compile returned.
C15_MatchesLeavesAutomataUnchanged ==
    pc \in {"matching", "matched"}
    => /\ matcher.automata.initial = automata.initial
       /\ matcher.automata.accepting = automata.accepting
       /\ DOMAIN matcher.automata.transitions = DOMAIN automata.transitions
       /\ \A s \in DOMAIN automata.transitions :
              matcher.automata.transitions[s] = automata.transitions[s]

\* Matches("aabbc") has returned true on the automaton of "(a|b)*c".
C15_Witness ==
    /\ pc = "matched"
    /\ pattern = <<LParen, LitA, Pipe, LitB, RParen, Star, LitC>>
    /\ input = <<LitA, LitA, LitB, LitB, LitC>>
    /\ result

\* The pattern is a non-empty sequence of literals, NUL being one of them.
LiteralsWithNul(p) ==
    Len(p) > 0 /\ \A i \in 1..Len(p) : p[i] \notin {Star, LParen, RParen, Pipe}

\* C16: a NUL in a pattern is compiled like any other literal: the automaton
\* of a sequence of literals, NUL among them, accepts that sequence only (the
\* pattern 'a' NUL 'b' does not accept "ab"), and no transition of the
\* automaton of a pattern without '|' and '*' is an epsilon transition.
C16_NulInPatternIsALiteral ==
    /\ (LiteralsWithNul(pattern) /\ pc = "matched" /\ NulFree(input))
       => result = (input = pattern)
    /\ (LiteralsWithNul(pattern) /\ CompileSucceeded)
       => empty \notin Labels(automata)

\* "x|y" with its i-th rune the '|': "y|x".
Swapped(p, i) == SubSeq(p, i + 1, Len(p)) \o <<Pipe>> \o SubSeq(p, 1, i - 1)

\* C17: for every pattern "x|y" of well-formed x and y without empty runs, the
\* automaton of "x|y" and the automaton of "y|x" give the same answer for
\* every input.  (compileExpression as one call returns what the stepped
\* parse returned, so Compile(Swapped(..)) is what the program builds for
\* "y|x".)
C17_AlternationCommutes ==
    /\ Len(frames) = 0
       => (LET whole == compileExpression(pattern, 0, NewFrame(FALSE))
           IN ret.expr = whole.expr /\ ret.err = whole.err /\ pos = whole.pos)
    /\ (pc = "matched" /\ WellFormed(pattern) /\ ~EmptyRun(pattern))
       => \A i \in TopPipes(pattern) :
              result = Matches(Compile(Swapped(pattern, i)), input)

\* Matches("aa") has returned true on the automaton of "a*|b".
C17_Witness ==
    /\ pc = "matched"
    /\ pattern = <<LitA, Star, Pipe, LitB>>
    /\ input = <<LitA, LitA>>
    /\ result

\* The states of automaton a one transition away from a state of S.
Successors(a, S) ==
    UNION {UNION {{a.transitions[s][c][k] : k \in 1..Len(a.transitions[s][c])} :
                  c \in DOMAIN a.transitions[s]} :
           s \in S \cap DOMAIN a.transitions}

\* The states of a reachable from the states of S.
RECURSIVE ReachableFrom(_, _)
ReachableFrom(a, S) ==
    LET T == S \cup Successors(a, S)
    IN IF T = S THEN S ELSE ReachableFrom(a, T)

\* C18: in every automaton Compile returns, every state reachable from the
\* initial state, the accepting state included, is a key of the transition
\* table.
C18_ReachableStatesAreKeys ==
    CompileSucceeded
    => ReachableFrom(automata, {automata.initial}) \subseteq DOMAIN automata.transitions

\* The statement of C18 for the states other than the accepting state.
ReachableStatesButAcceptingAreKeys ==
    CompileSucceeded
    => (ReachableFrom(automata, {automata.initial}) \ {automata.accepting})
       \subseteq DOMAIN automata.transitions

\* Every state automaton a mentions.
States(a) ==
    {a.initial, a.accepting} \cup DOMAIN a.transitions
    \cup Successors(a, DOMAIN a.transitions)

\* r is a fragment returned by a convert call made after n newState calls: it
\* has one initial and one accepting state, different from each other, and
\* every state of it was created by that call.
Fresh(r, n) ==
    /\ ~r.panic
    /\ r.automata.initial # r.automata.accepting
    /\ States(r.automata) \subseteq n..(r.next - 1)

\* mergeTransitions(a, b) of tables with disjoint key sets keeps every entry of
\* both.
MergeKeepsBoth(a, b) ==
    /\ DOMAIN a \cap DOMAIN b = {}
    /\ \A s \in DOMAIN a : mergeTransitions(a, b)[s] = a[s]
    /\ \A s \in DOMAIN b : mergeTransitions(a, b)[s] = b[s]

\* Every fragment built by e.convert(), called after n newState calls, is
\* fresh, and every mergeTransitions call made on the way keeps both tables.
RECURSIVE FragmentsDisjoint(_, _), ConcatFragmentsDisjoint(_, _, _)
FragmentsDisjoint(e, n) ==
    /\ Fresh(convert(e, n), n)
    /\ CASE e.kind = "match" -> TRUE
         [] e.kind = "kleene" ->
                /\ FragmentsDisjoint(e.expr, n + 2)
                /\ {newState(n), newState(n + 1)}
                   \cap States(convert(e.expr, n + 2).automata) = {}
         [] e.kind = "union" ->
                LET r1 == convert(e.expr1, n + 2)
                    r2 == convert(e.expr2, r1.next)
                IN /\ FragmentsDisjoint(e.expr1, n + 2)
                   /\ FragmentsDisjoint(e.expr2, r1.next)
                   /\ States(r1.automata) \cap States(r2.automata) = {}
                   /\ {newState(n), newState(n + 1)}
                      \cap (States(r1.automata) \cup States(r2.automata)) = {}
                   /\ newState(n) # newState(n + 1)
                   /\ MergeKeepsBoth(r1.automata.transitions, r2.automata.transitions)
         [] e.kind = "concat" ->
                /\ Len(e.exprs) > 0
                /\ FragmentsDisjoint(e.exprs[1], n)
                /\ ConcatFragmentsDisjoint(e.exprs, 2, convert(e.exprs[1], n))
         [] OTHER -> FALSE

ConcatFragmentsDisjoint(exprs, i, acc) ==
    \/ i > Len(exprs)
    \/ LET b == convert(exprs[i], acc.next)
       IN /\ FragmentsDisjoint(exprs[i], acc.next)
          /\ States(acc.automata) \cap States(b.automata) = {}
          /\ MergeKeepsBoth(acc.automata.transitions, b.automata.transitions)
          /\ ConcatFragmentsDisjoint(exprs, i + 1,
                                     Returned(concatAutomata(acc.automata, b.automata),
                                              b.next))

\* C19: every fragment a convert call returns has one initial and one
\* accepting state, every newState call yields a state different from all
\* states created before, and so every mergeTransitions call merges tables
\* with disjoint key sets and overwrites no entry.
C19_FragmentsNeverCollide ==
    /\ pc = "compiled" => FragmentsDisjoint(ret.expr, 0)
    /\ CompileSucceeded => States(automata) \subseteq 0..(allocated - 1)

\* Compile has built the automaton of "(a|b)*c" from ten states.
C19_Witness ==
    /\ pc = "compiled"
    /\ pattern = <<LParen, LitA, Pipe, LitB, RParen, Star, LitC>>
    /\ allocated = 10

\* The states of a sequence of states.
SetOf(q) == {q[i] : i \in 1..Len(q)}

\* destinations(s, c): the states the table of a gives for state s and label c.
Destinations(a, s, c) ==
    IF s \in DOMAIN a.transitions /\ c \in DOMAIN a.transitions[s]
    THEN SetOf(a.transitions[s][c])
    ELSE {}

\* The reference epsilon-closure: the least set that holds S and every
\* destination of an epsilon transition from a state of it.
RECURSIVE EpsilonClosure(_, _)
EpsilonClosure(a, S) ==
    LET T == S \cup UNION {Destinations(a, s, empty) : s \in S}
    IN IF T = S THEN S ELSE EpsilonClosure(a, T)

\* C20: after newMatcher the configuration oldStates is, as a set, the
\* epsilon-closure of {initial}; after each move(c) for a non-NUL rune c it is
\* the epsilon-closure of the destinations on c of the states of the previous
\* configuration; it never holds a state twice; and Matches returns true
\* exactly when the accepting state is in the configuration after the last
\* rune.
C20_ConfigurationIsEpsilonClosure ==
    /\ [](/\ (pc = "matching" /\ inPos = 0)
             => SetOf(matcher.oldStates)
                = EpsilonClosure(automata, {automata.initial})
          /\ pc \in {"matching", "matched"}
             => /\ NoDuplicates(matcher.oldStates)
                /\ matcher.newStates = << >>
          /\ pc = "matched"
             => /\ inPos = Len(input)
                /\ result = (automata.accepting \in SetOf(matcher.oldStates)))
    /\ [][(pc = "matching" /\ pc' = "matching" /\ input[inPos + 1] # empty)
          => SetOf(matcher'.oldStates)
             = EpsilonClosure(automata,
                              UNION {Destinations(automata, s, input[inPos + 1]) :
                                     s \in SetOf(matcher.oldStates)})]_vars

\* Matches("aaa") has returned true on the automaton of "(a*)*", whose
\* epsilon transitions form cycles.
C20_Witness ==
    /\ pc = "matched"
    /\ pattern = <<LParen, LitA, Star, RParen, Star>>
    /\ input = <<LitA, LitA, LitA>>
    /\ result

\* concatAutomata(a, b) identifies a.accepting with b.initial.
Identifies(a, b) ==
    LET r == concatAutomata(a, b)
    IN /\ r.initial = a.initial
       /\ r.accepting = b.accepting
       /\ b.initial \in DOMAIN b.transitions
       /\ a.accepting \in DOMAIN r.transitions
       /\ r.transitions[a.accepting] = b.transitions[b.initial]
       /\ b.initial \notin DOMAIN r.transitions
       /\ b.initial \notin Successors(r, DOMAIN r.transitions)
       /\ DOMAIN r.transitions
          = ((DOMAIN a.transitions \cup DOMAIN b.transitions) \ {b.initial})
            \cup {a.accepting}
       /\ \A s \in DOMAIN a.transitions \ {a.accepting} :
              r.transitions[s] = a.transitions[s]
       /\ \A s \in DOMAIN b.transitions \ {b.initial} :
              r.transitions[s] = b.transitions[s]

\* Every concatAutomata call of e.convert(), called after n newState calls,
\* identifies the two states.
RECURSIVE ConcatCallsIdentify(_, _), ConcatLoopIdentifies(_, _, _)
ConcatCallsIdentify(e, n) ==
    CASE e.kind = "match" -> TRUE
      [] e.kind = "kleene" -> ConcatCallsIdentify(e.expr, n + 2)
      [] e.kind = "union" ->
             /\ ConcatCallsIdentify(e.expr1, n + 2)
             /\ ConcatCallsIdentify(e.expr2, convert(e.expr1, n + 2).next)
      [] e.kind = "concat" ->
             /\ Len(e.exprs) > 0
             /\ ConcatCallsIdentify(e.exprs[1], n)
             /\ ConcatLoopIdentifies(e.exprs, 2, convert(e.exprs[1], n))
      [] OTHER -> FALSE

ConcatLoopIdentifies(exprs, i, acc) ==
    \/ i > Len(exprs)
    \/ LET b == convert(exprs[i], acc.next)
       IN /\ ConcatCallsIdentify(exprs[i], acc.next)
          /\ Identifies(acc.automata, b.automata)
          /\ ConcatLoopIdentifies(exprs, i + 1,
                                  Returned(concatAutomata(acc.automata, b.automata),
                                           b.next))

\* C21: in the result of every concatAutomata(a, b) call, a's accepting state
\* carries exactly the transitions b's initial state had, b's initial state is
\* no key and no target, every other entry of both tables is kept, the initial
\* state is a's and the accepting state is b's.
C21_ConcatIdentifiesStates ==
    pc = "compiled" => ConcatCallsIdentify(ret.expr, 0)

\* Compile has built the automaton of "a*bc" with two concatAutomata calls.
C21_Witness ==
    /\ pc = "compiled"
    /\ pattern = <<LitA, Star, LitB, LitC>>
    /\ Cardinality(DOMAIN automata.transitions) = 6

\* s holds only 'a' runes.
OnlyA(s) == \A i \in 1..Len(s) : s[i] = LitA

\* C22: with the earlier repetition wiring too, the automaton of "a*" accepts
\* every string of 'a' runes, of any length, and the automaton of "a*bc"
\* accepts "bc", "abc" and "aabc".
C22_EarlierWiringAcceptsEveryCount ==
    pc = "matched"
    => /\ (pattern = <<LitA, Star>> /\ OnlyA(input)) => result
       /\ (/\ pattern = <<LitA, Star, LitB, LitC>>
           /\ input \in {<<LitB, LitC>>, <<LitA, LitB, LitC>>,
                          <<LitA, LitA, LitB, LitC>>})
          => result

\* What the earlier wiring accepts: zero occurrences or one.
EarlierWiringAcceptsZeroOrOne ==
    (pc = "matched" /\ NulFree(input))
    => /\ pattern = <<LitA, Star>> => result = (OnlyA(input) /\ Len(input) <= 1)
       /\ pattern = <<LitA, Star, LitB, LitC>>
          => result = (input \in {<<LitB, LitC>>, <<LitA, LitB, LitC>>})

\* C23: once oldStates is empty after a rune of the input, it is empty after
\* every later rune and Matches returns false; so a Matches that stopped at
\* the first empty configuration would return the same result.
C23_EmptyConfigurationStaysEmpty ==
    /\ [][(pc = "matching" /\ inPos > 0 /\ matcher.oldStates = << >>)
          => /\ matcher'.oldStates = << >>
             /\ pc' = "matched" => result' = FALSE]_vars
    /\ []((pc = "matched"
           /\ \E k \in 1..Len(input) : MatcherAfter(automata, input, k).oldStates = << >>)
          => result = FALSE)

\* On the automaton of "ab", Matches("bab") has returned false: the
\* configuration was empty after the first rune, and "ab" followed.
C23_Witness ==
    /\ pc = "matched"
    /\ pattern = <<LitA, LitB>>
    /\ input = <<LitB, LitA, LitB>>
    /\ matcher.oldStates = << >>
    /\ result = FALSE

\* State s has no outgoing transition in table t.
NoTransitions(t, s) == \A c \in DOMAIN Lookup(t, s) : Lookup(t, s)[c] = << >>

\* No transition of a targets its initial state, its accepting state has no
\* outgoing transition, and every target is a key or the accepting state.
Proper(a) ==
    /\ a.initial \notin Successors(a, DOMAIN a.transitions)
    /\ NoTransitions(a.transitions, a.accepting)
    /\ Successors(a, DOMAIN a.transitions) \subseteq DOMAIN a.transitions \cup {a.accepting}

\* Every fragment built by e.convert(), called after n newState calls, is
\* proper, the intermediate results of concat.convert included.
RECURSIVE ProperFragments(_, _), ProperConcatLoop(_, _, _)
ProperFragments(e, n) ==
    /\ ~convert(e, n).panic
    /\ Proper(convert(e, n).automata)
    /\ CASE e.kind = "match" -> TRUE
         [] e.kind = "kleene" -> ProperFragments(e.expr, n + 2)
         [] e.kind = "union" ->
                /\ ProperFragments(e.expr1, n + 2)
                /\ ProperFragments(e.expr2, convert(e.expr1, n + 2).next)
         [] e.kind = "concat" ->
                /\ Len(e.exprs) > 0
                /\ ProperFragments(e.exprs[1], n)
                /\ ProperConcatLoop(e.exprs, 2, convert(e.exprs[1], n))
         [] OTHER -> FALSE

ProperConcatLoop(exprs, i, acc) ==
    \/ i > Len(exprs)
    \/ LET b == convert(exprs[i], acc.next)
           r == concatAutomata(acc.automata, b.automata)
       IN /\ ProperFragments(exprs[i], acc.next)
          /\ Proper(acc.automata)
          /\ Proper(r)
          /\ ProperConcatLoop(exprs, i + 1, Returned(r, b.next))

\* C24: in every fragment a convert call returns, at any nesting, no
\* transition targets the initial state and the accepting state has no
\* outgoing transition; so the entries concatAutomata, union.convert and
\* kleene.convert overwrite hold no transition, and no target dangles after
\* concatAutomata deleted b's initial state.
C24_FragmentsAreProper ==
    pc = "compiled" => ProperFragments(ret.expr, 0)

\* Compile has built the automaton of "(a*)*": the outer repetition overwrote
\* the entry of the inner repetition's accepting state.
C24_Witness ==
    /\ pc = "compiled"
    /\ pattern = <<LParen, LitA, Star, RParen, Star>>
    /\ allocated = 6

\* C25: in the command-line compile, expectedClosing is the number of groups
\* open; a step that reads a ')' while it is 0 returns the error "Unexpected
\* closing parenthesis", and a step at the end of the pattern while it is not
\* 0 returns "Expected closing parenthesis"; whenever compile returned an
\* error, the automaton is nil and convert was not called.
C25_ParenthesesAreCounted ==
    /\ [](/\ pc = "read" => expectedClosing = Depth(pattern, pos)
          /\ pc = "failed" => (automata = NilAutomata /\ allocated = 0)
          /\ (\E i \in 1..pos : StrayClose(pattern, i))
             => (pc = "failed" /\ err = ErrUnexpectedClosing
                 /\ StrayClose(pattern, pos)))
    /\ [][/\ (pc = "read" /\ pos < Len(pattern)
              /\ pattern[pos + 1] = RParen /\ expectedClosing = 0)
             => (pc' = "failed" /\ err' = ErrUnexpectedClosing
                 /\ automata' = NilAutomata /\ allocated' = 0)
          /\ (pc = "read" /\ pos = Len(pattern) /\ expectedClosing # 0)
             => (pc' = "failed" /\ err' = ErrExpectedClosing
                 /\ automata' = NilAutomata /\ allocated' = 0)]_vars

\* compile("(a))") has failed on the second ')'.
C25_Witness ==
    /\ pc = "failed"
    /\ err = ErrUnexpectedClosing
    /\ pattern = <<LParen, LitA, RParen, RParen>>
    /\ pos = 4
    /\ expectedClosing = 0

\* compile("((a)") has failed at the end of the pattern.
ExpectedClosingReached ==
    /\ pc = "failed"
    /\ err = ErrExpectedClosing
    /\ pattern = <<LParen, LParen, LitA, RParen>>
    /\ expectedClosing = 1

\* s is a string over {a, b} that ends in "abb".
EndsInAbb(s) ==
    /\ Len(s) >= 3
    /\ SubSeq(s, Len(s) - 2, Len(s)) = <<LitA, LitB, LitB>>
    /\ \A i \in 1..Len(s) : s[i] \in {LitA, LitB}

\* C26: on the automaton of buildStateMachine, matchAutomata returns true
\* exactly for the strings over {a, b} that end in "abb".
C26_StateMachineDecidesAbb ==
    pc = "matched" => result = EndsInAbb(input)

\* The statement of C26 for the inputs that hold no NUL.
StateMachineDecidesAbbOnNulFreeInput ==
    (pc = "matched" /\ NulFree(input)) => result = EndsInAbb(input)

\* The matcher inside move(c), after the outer loop has handled the first k
\* states of oldStates.
RECURSIVE MidMove(_, _, _)
MidMove(mt, c, k) ==
    IF k = 0
    THEN mt
    ELSE LET before == MidMove(mt, c, k - 1)
         IN moveInner(before, getTransitions(before.automata, before.oldStates[k], c), 1)

\* alreadyOn is true exactly for the states in newStates.
MarksAreNewStates(mt) ==
    \A s \in DOMAIN mt.alreadyOn \cup SetOf(mt.newStates) :
        IsAlreadyOn(mt, s) <=> s \in SetOf(mt.newStates)

\* During move(c) on matcher mt, after each state of oldStates handled.
MarksAreNewStatesDuring(mt, c) ==
    /\ \A k \in 0..Len(mt.oldStates) : MarksAreNewStates(MidMove(mt, c, k))
    /\ MidMove(mt, c, Len(mt.oldStates)) = moveOuter(mt, c, 1)

\* C27: when newMatcher and every move return, newStates is empty and
\* alreadyOn is false for every state; during newMatcher's move and every
\* move of Matches, alreadyOn is true exactly for the states in newStates.
C27_MarksAreReset ==
    /\ pc \in {"matching", "matched"}
       => /\ matcher.newStates = << >>
          /\ \A s \in DOMAIN matcher.alreadyOn : ~matcher.alreadyOn[s]
    /\ pc = "compiled"
       => MarksAreNewStatesDuring(
              [automata |-> automata,
               oldStates |-> <<automata.initial>>,
               newStates |-> << >>,
               alreadyOn |-> [s \in DOMAIN automata.transitions |-> FALSE]],
              empty)
    /\ (pc = "matching" /\ inPos < Len(input))
       => MarksAreNewStatesDuring(matcher, input[inPos + 1])

\* Two moves of Matches("aa") on the automaton of "a*" have returned: the
\* second one added the states the first one had marked.
C27_Witness ==
    /\ pc = "matching"
    /\ pattern = <<LitA, Star>>
    /\ input = <<LitA, LitA>>
    /\ inPos = 2
    /\ Len(matcher.oldStates) > 1

====
